---------------------------- MODULE Spec2Model ----------------------------
(***************************************************************************)
(* A model of picoscope/ps3000a.py: the PS3000a low-level binding layer.   *)
(*                                                                         *)
(* Two parts:                                                              *)
(*   - the timebase converter (getTimeBaseNum, getTimestepFromTimebase),   *)
(*     computed as CPython computes it: on IEEE-754 binary64 values with   *)
(*     round-to-nearest-even after every arithmetic operation, and on      *)
(*     unbounded integers;                                                 *)
(*   - the _lowLevel* operations: each is one action that issues its       *)
(*     driver calls in order, checks every status and ends with a return   *)
(*     value or an exception.                                              *)
(***************************************************************************)
EXTENDS Integers, Sequences, FiniteSets, TLC

(***************************************************************************)
(* Unbounded naturals (Python int).  TLC's integers are 32 bits wide, so a *)
(* natural is a little-endian sequence of limbs in 0..Base-1 whose last    *)
(* (most significant) limb is not 0; zero is the empty sequence.           *)
(***************************************************************************)
Base == 2^15

RECURSIVE BigNorm(_)
BigNorm(a) ==
    IF a = <<>> THEN <<>>
    ELSE IF a[Len(a)] = 0 THEN BigNorm(SubSeq(a, 1, Len(a) - 1))
    ELSE a

\* n in 0 .. 2^31-1
BigOfInt(n) ==
    BigNorm(<<n % Base, (n \div Base) % Base, n \div (Base * Base)>>)

RECURSIVE BigMulSmallC(_, _, _)
BigMulSmallC(a, k, c) ==
    IF a = <<>> THEN (IF c = 0 THEN <<>> ELSE <<c>>)
    ELSE LET v == Head(a) * k + c
         IN  <<v % Base>> \o BigMulSmallC(Tail(a), k, v \div Base)

\* a * k for 0 <= k <= Base
BigMulSmall(a, k) == BigNorm(BigMulSmallC(a, k, 0))

RECURSIVE BigDivRemU(_, _)
BigDivRemU(a, k) ==
    IF a = <<>> THEN [q |-> <<>>, r |-> 0]
    ELSE LET hi == BigDivRemU(Tail(a), k)
             v  == hi.r * Base + Head(a)
         IN  [q |-> <<v \div k>> \o hi.q, r |-> v % k]

\* floor(a / k) and a mod k for 1 <= k <= Base
BigDivRem(a, k) ==
    LET d == BigDivRemU(a, k) IN [q |-> BigNorm(d.q), r |-> d.r]

RECURSIVE BigAddC(_, _, _)
BigAddC(a, b, c) ==
    IF a = <<>> /\ b = <<>> THEN (IF c = 0 THEN <<>> ELSE <<c>>)
    ELSE LET x == IF a = <<>> THEN 0 ELSE Head(a)
             y == IF b = <<>> THEN 0 ELSE Head(b)
             v == x + y + c
         IN  <<v % Base>> \o BigAddC(IF a = <<>> THEN <<>> ELSE Tail(a),
                                     IF b = <<>> THEN <<>> ELSE Tail(b),
                                     v \div Base)

BigAdd(a, b) == BigAddC(a, b, 0)

RECURSIVE BigSubC(_, _, _)
BigSubC(a, b, c) ==
    IF a = <<>> THEN <<>>
    ELSE LET y == IF b = <<>> THEN 0 ELSE Head(b)
             v == Head(a) - y - c
         IN  <<(v + Base) % Base>>
             \o BigSubC(Tail(a), IF b = <<>> THEN <<>> ELSE Tail(b),
                        IF v < 0 THEN 1 ELSE 0)

\* a - b for a >= b
BigSub(a, b) == BigNorm(BigSubC(a, b, 0))

RECURSIVE BigLessFrom(_, _, _)
BigLessFrom(a, b, i) ==
    IF i = 0 THEN FALSE
    ELSE IF a[i] # b[i] THEN a[i] < b[i]
    ELSE BigLessFrom(a, b, i - 1)

BigLess(a, b) ==
    IF Len(a) # Len(b) THEN Len(a) < Len(b) ELSE BigLessFrom(a, b, Len(a))

BigLeq(a, b) == ~BigLess(b, a)

RECURSIVE BitLenSmall(_)
BitLenSmall(n) == IF n = 0 THEN 0 ELSE 1 + BitLenSmall(n \div 2)

BitLen(a) ==
    IF a = <<>> THEN 0 ELSE (Len(a) - 1) * 15 + BitLenSmall(a[Len(a)])

\* a * 2^n
ShiftLeft(a, n) ==
    IF a = <<>> THEN <<>>
    ELSE [i \in 1..(n \div 15) |-> 0] \o BigMulSmall(a, 2^(n % 15))

\* floor(a / 2^n), and whether a bit that is 1 was shifted out
ShiftRightSticky(a, n) ==
    LET w    == n \div 15
        low  == SubSeq(a, 1, IF w < Len(a) THEN w ELSE Len(a))
        high == SubSeq(a, w + 1, Len(a))
        d    == BigDivRem(high, 2^(n % 15))
    IN  [q |-> d.q,
         s |-> d.r # 0 \/ \E i \in 1..Len(low) : low[i] # 0]

ShiftRight(a, n) == ShiftRightSticky(a, n).q

IsOdd(a) == a # <<>> /\ a[1] % 2 = 1

(***************************************************************************)
(* IEEE-754 binary64 (Python float).  A positive finite double is          *)
(* [m, e] with value m * 2^e and m of exactly 53 bits; zero is FZero.      *)
(* Subnormals, infinities and NaN lie outside the values modelled.         *)
(***************************************************************************)
FZero == [m |-> <<>>, e |-> 0]

\* The double nearest to n * 2^e, ties to even; sticky says that the exact
\* value lies strictly above n * 2^e and below (n + 1) * 2^e.
RoundToDouble(n, e, sticky) ==
    IF n = <<>> THEN FZero
    ELSE LET L == BitLen(n) IN
         IF L <= 53 THEN [m |-> ShiftLeft(n, 53 - L), e |-> e - (53 - L)]
         ELSE LET sh    == L - 53
                  g     == ShiftRightSticky(n, sh - 1)
                  h     == BigDivRem(g.q, 2)
                  up    == h.r = 1 /\ (g.s \/ sticky \/ IsOdd(h.q))
                  m1    == IF up THEN BigAdd(h.q, <<1>>) ELSE h.q
              IN  IF BitLen(m1) = 54
                  THEN [m |-> ShiftRight(m1, 1), e |-> e + sh + 1]
                  ELSE [m |-> m1, e |-> e + sh]

\* float(n) for a Python int n
IntToDouble(n) == RoundToDouble(n, 0, FALSE)

\* x < y, x <= y on non-negative doubles
FLess(x, y) ==
    IF y.m = <<>> THEN FALSE
    ELSE IF x.m = <<>> THEN TRUE
    ELSE IF x.e # y.e THEN x.e < y.e
    ELSE BigLess(x.m, y.m)

FLeq(x, y) == ~FLess(y, x)

\* x * c for the integer c = c1 * c2 (c itself a double), correctly rounded
FMulConst(x, c1, c2) ==
    RoundToDouble(BigMulSmall(BigMulSmall(x.m, c1), c2), x.e, FALSE)

\* x / c for the integer c = c1 * c2, correctly rounded: 80 extra quotient
\* bits are computed and the remainders are kept as the sticky bit
FDivConst(x, c1, c2) ==
    LET n  == ShiftLeft(x.m, 80)
        d1 == BigDivRem(n, c1)
        d2 == BigDivRem(d1.q, c2)
    IN  RoundToDouble(d2.q, x.e - 80, d1.r # 0 \/ d2.r # 0)

\* x + 2.0, correctly rounded
FAddTwo(x) ==
    IF x.m = <<>> THEN IntToDouble(<<2>>)
    ELSE IF x.e <= 1
    THEN RoundToDouble(BigAdd(x.m, ShiftLeft(<<1>>, 1 - x.e)), x.e, FALSE)
    ELSE RoundToDouble(BigAdd(ShiftLeft(x.m, x.e - 1), <<1>>), 1, FALSE)

\* math.floor(x) for x >= 0, a Python int
FFloor(x) ==
    IF x.m = <<>> THEN <<>>
    ELSE IF x.e < 0 THEN ShiftRight(x.m, 0 - x.e)
    ELSE ShiftLeft(x.m, x.e)

\* 2. ** k for a small integer k
FPow2(k) == [m |-> ShiftLeft(<<1>>, 52), e |-> k - 52]


(***************************************************************************)
(* ctypes integer conversions (lines 58-60): the value a C integer of the  *)
(* given width holds after the conversion.                                 *)
(***************************************************************************)
\* c_uint32(n) for a Python int n: n mod 2^32
c_uint32(n) ==
    BigNorm(<<IF Len(n) >= 1 THEN n[1] ELSE 0,
              IF Len(n) >= 2 THEN n[2] ELSE 0,
              IF Len(n) >= 3 THEN n[3] % 4 ELSE 0>>)

\* c_uint16(n), c_int16(n) for 0 <= n < 2^31
c_uint16(n) == n % 2^16
c_int16(n) == ((n + 2^15) % 2^16) - 2^15

(***************************************************************************)
(* The timebase converter.                                                 *)
(***************************************************************************)
\* 125000000 = 15625 * 8000 and 1E9 = 31250 * 32000, each factor one limb
Clock125M == <<15625, 8000>>
Nano1E9 == <<31250, 32000>>

\* the literal 8.0E-9: the double nearest to 8/10^9 = 1/125000000
Lit8ns == FDivConst(IntToDouble(<<1>>), Clock125M[1], Clock125M[2])

\* as maxSampleTime, the two subtractions forgotten: 2 ** 32 / 125000000
maxSampleTime_NoOffset ==
    FDivConst(IntToDouble(ShiftLeft(<<1>>, 32)), Clock125M[1], Clock125M[2])

\* (((2 ** 32 - 1) - 2) / 125000000): true division of two ints
maxSampleTime ==
    FDivConst(IntToDouble(BigSub(BigSub(ShiftLeft(<<1>>, 32), <<1>>), <<2>>)),
              Clock125M[1], Clock125M[2])

\* math.log(x, 2) is log(x) / log(2) on doubles, each step rounded to
\* nearest: the quotient reaches the integer k already for the LogSlack(k)
\* doubles just below 2^k (log(4 - 2^-51) rounds to 2 * log(2), and so on).
LogSlack(k) == CASE k = 2 -> 1 [] k = 3 -> 3 [] OTHER -> 0

\* math.floor(math.log(x, 2)) for a double x > 0, 2^(k-1) <= x < 2^k
FloorLog2(x) ==
    LET k == x.e + 53
    IN  IF BigLeq(BigSub(ShiftLeft(<<1>>, 53), BigOfInt(LogSlack(k))), x.m)
        THEN k ELSE k - 1

Returned(st) == [err |-> "none", st |-> st]
Raised(kind) == [err |-> kind, st |-> <<>>]

\* as getTimeBaseNum, without the clamp to maxSampleTime: the code is cut
\* to the unsigned 32 bits the driver takes
getTimeBaseNum_Wrapping(sampleTimeS) ==
    IF FLess(sampleTimeS, Lit8ns)
    THEN LET x == FMulConst(sampleTimeS, Nano1E9[1], Nano1E9[2])
         IN  IF x.m = <<>>
             THEN Raised("ValueError")
             ELSE LET st == FloorLog2(x)
                  IN  Returned(BigOfInt(IF st > 0 THEN st ELSE 0))
    ELSE LET scaled == FMulConst(sampleTimeS, Clock125M[1], Clock125M[2])
         IN  Returned(c_uint32(FFloor(FAddTwo(scaled))))

getTimeBaseNum(sampleTimeS) ==
    IF FLess(sampleTimeS, Lit8ns)
    THEN LET x == FMulConst(sampleTimeS, Nano1E9[1], Nano1E9[2])
         IN  IF x.m = <<>>
             THEN Raised("ValueError")
             ELSE LET st == FloorLog2(x)
                  IN  Returned(BigOfInt(IF st > 0 THEN st ELSE 0))
    ELSE LET clamped == IF FLess(maxSampleTime, sampleTimeS)
                        THEN maxSampleTime ELSE sampleTimeS
             scaled  == FMulConst(clamped, Clock125M[1], Clock125M[2])
         IN  Returned(FFloor(FAddTwo(scaled)))

\* as getTimestepFromTimebase, the slow-clock offset off by one
getTimestepFromTimebase_OffByOne(timebase) ==
    IF BigLess(timebase, <<3>>)
    THEN FDivConst(FPow2(IF timebase = <<>> THEN 0 ELSE timebase[1]),
                   Nano1E9[1], Nano1E9[2])
    ELSE FDivConst(IntToDouble(BigSub(timebase, <<1>>)),
                   Clock125M[1], Clock125M[2])

getTimestepFromTimebase(timebase) ==
    IF BigLess(timebase, <<3>>)
    THEN FDivConst(FPow2(IF timebase = <<>> THEN 0 ELSE timebase[1]),
                   Nano1E9[1], Nano1E9[2])
    ELSE FDivConst(IntToDouble(BigSub(timebase, <<2>>)),
                   Clock125M[1], Clock125M[2])


(***************************************************************************)
(* State.                                                                  *)
(***************************************************************************)
VARIABLES
    sampleTimeS,  \* the interval last passed to getTimeBaseNum
    st,           \* what that call returned or raised ("NotCalled" before it)
    timebase,     \* the code last passed to getTimestepFromTimebase
    dt,           \* the interval that call returned ("NotCalled" before it)
    handle,       \* self.handle
    maxSamples,   \* self.maxSamples, recorded by the base class
    legacyNames,  \* whether the loaded library exports the ps3000 (non-"a") names
    op,           \* the _lowLevel operation that ran last
    inputs,       \* its arguments, and what the driver answered its calls
    calls,        \* the driver calls it issued, in order
    outcome       \* how it ended

vars == <<sampleTimeS, st, timebase, dt, handle, maxSamples, legacyNames,
          op, inputs, calls, outcome>>
tbVars == <<sampleTimeS, st, timebase, dt>>
drvVars == <<handle, maxSamples, legacyNames, op, inputs, calls, outcome>>

None == "None"


(***************************************************************************)
(* The _lowLevel operations.  The driver is the environment: a call's      *)
(* status and output parameters are inputs of the operation.  An operation *)
(* is an operator giving its effect: the driver calls it issued, in order, *)
(* and how it ended (a return value or the exception raised).              *)
(***************************************************************************)
Call(fn, args, m) == [fn |-> fn, args |-> args, status |-> m]

Return(value) == [kind |-> "return", status |-> 0, value |-> value]
Raise(kind) == [kind |-> kind, status |-> 0, value |-> None]
DriverError(m) == [kind |-> "DriverError", status |-> m, value |-> None]

\* self.checkResult(m): passes on status 0 and raises the driver error
\* carrying the status otherwise; TRUE when it passes
checkResult(m) == m = 0

Effect(cs, out) == [calls |-> cs, out |-> out]

\* m = self.lib.<fn>(...); self.checkResult(m); return value
Checked(fn, args, m, value) ==
    Effect(<<Call(fn, args, m)>>,
           IF checkResult(m) THEN Return(value) ELSE DriverError(m))

\* self.lib.<fn> for a name the ps3000a library exports only if it also
\* carries the older ps3000 entry points: ctypes raises AttributeError
\* for a symbol the library lacks
CheckedLegacy(fn, args, m, value) ==
    IF legacyNames THEN Checked(fn, args, m, value)
    ELSE Effect(<<>>, Raise("AttributeError"))

\* sn is None or a serial number; h is the handle the driver writes
_lowLevelOpenUnit(sn, m, h) ==
    IF sn = None
    THEN Effect(<<>>, Raise("TypeError"))   \* byref(None), line 154
    ELSE [calls |-> <<Call("ps3000aOpenUnit", <<sn>>, m)>>,
          out |-> IF checkResult(m) THEN Return(None) ELSE DriverError(m),
          handle |-> IF checkResult(m) THEN h ELSE handle]

_lowLevelCloseUnit(m) ==
    Checked("ps3000aCloseUnit", <<c_int16(handle)>>, m, None)

_lowLevelSetChannel(chNum, enabled, coupling, VRange, VOffset, m) ==
    Checked("ps3000aSetChannel",
            <<c_int16(handle), chNum, c_int16(enabled), coupling, VRange,
              VOffset>>, m, None)

_lowLevelStop(m) ==
    CheckedLegacy("ps3000Stop", <<c_int16(handle)>>, m, None)

\* as _lowLevelGetUnitInfo, the first call's status left unchecked
_lowLevelGetUnitInfo_Unchecked(info, m1, requiredSize, m2) ==
    LET first == Call("ps3000aGetUnitInfo",
                      <<c_int16(handle), c_int16(256), info>>, m1)
    IN  IF requiredSize > 256
        THEN IF ~legacyNames
             THEN Effect(<<first>>, Raise("AttributeError"))
             ELSE LET second == Call("ps3000_get_unit_info",
                                     <<c_int16(handle),
                                       c_int16(requiredSize + 1), info>>, m2)
                  IN  Effect(<<first, second>>,
                             IF checkResult(m2) THEN Return(<<"s", 2>>)
                             ELSE DriverError(m2))
        ELSE Effect(<<first>>, Return(<<"s", 1>>))

\* requiredSize is what the driver writes on the first call
_lowLevelGetUnitInfo(info, m1, requiredSize, m2) ==
    LET first == Call("ps3000aGetUnitInfo",
                      <<c_int16(handle), c_int16(256), info>>, m1)
    IN  IF ~checkResult(m1) THEN Effect(<<first>>, DriverError(m1))
        ELSE IF requiredSize > 256
        THEN IF ~legacyNames
             THEN Effect(<<first>>, Raise("AttributeError"))
             ELSE LET second == Call("ps3000_get_unit_info",
                                     <<c_int16(handle),
                                       c_int16(requiredSize + 1), info>>, m2)
                  IN  Effect(<<first, second>>,
                             IF checkResult(m2) THEN Return(<<"s", 2>>)
                             ELSE DriverError(m2))
        ELSE Effect(<<first>>, Return(<<"s", 1>>))

_lowLevelFlashLed(times, m) ==
    Checked("ps3000aFlashLed", <<c_int16(handle), c_int16(times)>>, m, None)

_lowLevelSetSimpleTrigger(enabled, trigsrc, threshold_adc, direction, delay, auto, m) ==
    Checked("ps3000aSetSimpleTrigger",
            <<c_int16(handle), c_int16(enabled), trigsrc,
              c_int16(threshold_adc), direction, delay, c_int16(auto)>>,
            m, None)

_lowLevelSetNoOfCaptures(numCaptures, m) ==
    Checked("ps3000aSetNoOfCaptures",
            <<c_int16(handle), c_uint16(numCaptures)>>, m, None)

_lowLevelMemorySegments(numSegments, m, maxSamplesOut) ==
    Checked("ps3000aMemorySegments",
            <<c_int16(handle), c_uint16(numSegments)>>, m, maxSamplesOut)

_lowLevelGetMaxSegments(m, maxSegmentsOut) ==
    Checked("ps3000aGetMaxSegments", <<c_int16(handle)>>, m, maxSegmentsOut)

\* tb is a Python int of any size
_lowLevelRunBlock(numPreTrigSamples, numPostTrigSamples, tb, oversample, segmentIndex, m, timeIndisposedMs) ==
    Checked("ps3000aRunBlock",
            <<c_int16(handle), numPreTrigSamples, numPostTrigSamples,
              c_uint32(tb), c_int16(oversample), c_uint16(segmentIndex)>>,
            m, timeIndisposedMs)

_lowLevelIsReady(m, ready) ==
    Checked("ps3000aIsReady", <<c_int16(handle)>>, m, ready # 0)

_lowlevelPingUnit(m) ==
    Checked("ps3000aPingUnit", <<c_int16(handle)>>, m, m = 0)

\* the interval is returned as intervalNanoSec * 1e-9; the value keeps the
\* driver's nanoseconds
_lowLevelGetTimebase(tb, noSamples, oversample, segmentIndex, m, intervalNanoSec, maxSamplesOut) ==
    Checked("ps3000aGetTimebase2",
            <<c_int16(handle), c_uint32(tb), noSamples, c_int16(oversample),
              segmentIndex>>,
            m, <<intervalNanoSec, maxSamplesOut>>)

_lowLevelSetAWGSimpleDeltaPhase(waveformLen, deltaPhase, indexMode, shots, triggerType, triggerSource, m) ==
    CheckedLegacy("ps3000_set_siggen",
                  <<c_int16(handle), deltaPhase, deltaPhase, waveformLen,
                    indexMode, shots, triggerType, triggerSource>>, m, None)

\* data is named by its row; numSamples is len(data)
_lowLevelSetDataBuffer(channel, data, numSamples, downSampleMode, segmentIndex, m) ==
    Checked("ps3000aSetDataBuffer",
            <<c_int16(handle), channel, data, numSamples, segmentIndex,
              downSampleMode>>, m, None)

_lowLevelClearDataBuffer(channel, segmentIndex, m) ==
    Checked("ps3000aSetDataBuffer",
            <<c_int16(handle), channel, None, 0, segmentIndex, 0>>, m, None)

_lowLevelGetValues(numSamples, startIndex, downSampleRatio, downSampleMode, segmentIndex, m, numSamplesReturned, overflow) ==
    Checked("ps3000aGetValues",
            <<c_int16(handle), startIndex, numSamples, downSampleRatio,
              downSampleMode, segmentIndex>>,
            m, <<numSamplesReturned, overflow>>)

_lowLevelGetValuesBulk(numSamples, fromSegment, toSegment, downSampleRatio, downSampleMode, m) ==
    Checked("ps3000aGetValuesBulk",
            <<c_int16(handle), c_int16(numSamples), c_int16(fromSegment),
              c_int16(toSegment), downSampleRatio, c_int16(downSampleMode)>>,
            m, <<"overflow", numSamples>>)

\* the names bound in the module's namespace (lines 43-65)
ModuleNames ==
    {"division", "absolute_import", "print_function", "unicode_literals",
     "math", "platform", "byref", "POINTER", "create_string_buffer",
     "c_float", "c_int16", "c_int32", "c_uint16", "c_uint32", "c_void_p",
     "c_enum", "_PicoscopeBase", "PS3000a"}

\* the loop of lines 345-348; m0 is the status the driver would give the
\* registration of segment 0.  The first pass through the body always
\* raises: the name ps is looked up before anything is called, and were it
\* bound, m would be the None that _lowLevelSetDataBuffer returns, which
\* checkResult does not take for status 0.
RegisterSegments(max_segments, channel, columns, downSampleMode, m0) ==
    IF max_segments <= 0 THEN Effect(<<>>, Return(None))
    ELSE IF "ps" \notin ModuleNames
    THEN Effect(<<>>, Raise("NameError"))
    ELSE LET one == _lowLevelSetDataBuffer(channel, <<"row", 0>>, columns, downSampleMode, 0, m0)
         IN  IF one.out.kind # "return" THEN one
             ELSE Effect(one.calls, DriverError(None))

\* as _lowLevelSetMultipleDataBuffers, the check of the columns left out
_lowLevelSetMultipleDataBuffers_NoColumnCheck(channel, rows, columns, downSampleMode, m, maxSegmentsOut, m0) ==
    LET query == _lowLevelGetMaxSegments(m, maxSegmentsOut)
    IN  IF query.out.kind # "return" THEN query
        ELSE LET max_segments == query.out.value
             IN  IF rows < max_segments
                 THEN Effect(query.calls, Raise("ValueError"))
                 ELSE LET loop == RegisterSegments(max_segments, channel,
                                                   columns, downSampleMode,
                                                   m0)
                      IN  Effect(query.calls \o loop.calls, loop.out)

\* data has shape (rows, columns)
_lowLevelSetMultipleDataBuffers(channel, rows, columns, downSampleMode, m, maxSegmentsOut, m0) ==
    LET query == _lowLevelGetMaxSegments(m, maxSegmentsOut)
    IN  IF query.out.kind # "return" THEN query
        ELSE LET max_segments == query.out.value
             IN  IF rows < max_segments
                 THEN Effect(query.calls, Raise("ValueError"))
                 ELSE IF columns < maxSamples
                 THEN Effect(query.calls, Raise("ValueError"))
                 ELSE LET loop == RegisterSegments(max_segments, channel,
                                                   columns, downSampleMode,
                                                   m0)
                      IN  Effect(query.calls \o loop.calls, loop.out)


(***************************************************************************)
(* Inputs.                                                                 *)
(***************************************************************************)
MaxTicks == 32       \* requested intervals up to MaxTicks * 8 ns
MaxHalvings == 5     \* and down to 8 ns / 2^MaxHalvings
MaxNudge == 1        \* each also moved by up to MaxNudge doubles
MaxTimebase == 12    \* timebase codes 0..MaxTimebase
MaxSegs == 2         \* the driver reports 0..MaxSegs memory segments
MaxShape == 3        \* buffers of up to MaxShape rows and columns

\* the double nearest to k / 125000000 s: k clock ticks of 8 ns
Tick(k) == FDivConst(IntToDouble(BigOfInt(k)), Clock125M[1], Clock125M[2])

\* x * 2^j
Scale(x, j) == [m |-> x.m, e |-> x.e + j]

\* the d-th double above (below, for d < 0) the positive double x
Nudge(x, d) ==
    LET lo == ShiftLeft(<<1>>, 52)
        hi == ShiftLeft(<<1>>, 53)
        up == BigAdd(x.m, BigOfInt(d))
    IN  IF d >= 0
        THEN IF BigLess(up, hi) THEN [m |-> up, e |-> x.e]
             ELSE [m |-> BigAdd(lo, BigSub(up, hi)), e |-> x.e + 1]
        ELSE IF BigLeq(BigAdd(lo, BigOfInt(0 - d)), x.m)
             THEN [m |-> BigSub(x.m, BigOfInt(0 - d)), e |-> x.e]
             ELSE [m |-> BigSub(BigAdd(hi, x.m), BigAdd(lo, BigOfInt(0 - d))),
                   e |-> x.e - 1]

Nudges == (0 - MaxNudge)..MaxNudge

Intervals ==
    {FZero}
    \cup {Nudge(Tick(k), d) : k \in 1..MaxTicks, d \in Nudges}
    \cup {Nudge(Scale(Tick(1), 0 - j), d) : j \in 1..MaxHalvings, d \in Nudges}
    \cup {Nudge(Scale(maxSampleTime, j), d) : j \in 0..1, d \in Nudges}

TwoTo32 == ShiftLeft(<<1>>, 32)

Timebases ==
    {BigOfInt(c) : c \in 0..MaxTimebase}
    \cup {BigSub(TwoTo32, <<2>>), BigSub(TwoTo32, <<1>>), TwoTo32,
          BigAdd(TwoTo32, <<1>>)}

Status == {0, 3, 12}     \* PICO_OK and two of the driver's error codes
Handles == {1, 2}


(***************************************************************************)
(* The timebase converter as a state machine: a caller asks for a code,    *)
(* converts codes back to intervals, and starts a capture with the code    *)
(* it was given.                                                           *)
(***************************************************************************)
Do(name, params, driver, eff) ==
    /\ op' = name
    /\ inputs' = [params |-> params, driver |-> driver]
    /\ calls' = eff.calls
    /\ outcome' = eff.out
    /\ handle' = IF "handle" \in DOMAIN eff THEN eff.handle ELSE handle
    /\ UNCHANGED <<maxSamples, legacyNames>>

NotRequested == Raised("NotCalled")
NotConverted == [err |-> "NotCalled", dt |-> FZero]

\* no conversion is under way: the caller holds no result
Idle == st = NotRequested /\ dt = NotConverted

\* a caller asks for the code of an interval
GetTimeBaseNum ==
    /\ Idle
    /\ \E t \in Intervals :
        /\ sampleTimeS' = t
        /\ st' = getTimeBaseNum(t)
        /\ timebase' = <<>>
        /\ dt' = NotConverted
        /\ UNCHANGED drvVars

\* a caller converts a code it has from elsewhere (the driver, a table)
GetTimestepFromTimebase ==
    /\ Idle
    /\ \E code \in Timebases :
        /\ timebase' = code
        /\ dt' = [err |-> "none", dt |-> getTimestepFromTimebase(code)]
        /\ sampleTimeS' = FZero
        /\ st' = NotRequested
        /\ UNCHANGED drvVars

\* a caller converts back the code it was given for its request, or the
\* code after it
GetTimestepOfTimeBaseNum ==
    /\ st.err = "none"
    /\ \E code \in {st.st, BigAdd(st.st, <<1>>)} :
          /\ timebase' = code
          /\ dt' = [err |-> "none", dt |-> getTimestepFromTimebase(code)]
    /\ UNCHANGED <<sampleTimeS, st>>
    /\ UNCHANGED drvVars

\* the caller is done with the results it holds
Forget ==
    /\ ~Idle
    /\ sampleTimeS' = FZero
    /\ st' = NotRequested
    /\ timebase' = <<>>
    /\ dt' = NotConverted
    /\ UNCHANGED drvVars

InitTimebase ==
    /\ sampleTimeS = FZero
    /\ st = NotRequested
    /\ timebase = <<>>
    /\ dt = NotConverted
    /\ handle = 1
    /\ maxSamples = 1
    /\ legacyNames = FALSE
    /\ op = "idle"
    /\ inputs = [params |-> <<>>, driver |-> <<>>]
    /\ calls = <<>>
    /\ outcome = Return(None)

NextTimebase ==
    \/ GetTimeBaseNum
    \/ GetTimestepFromTimebase
    \/ GetTimestepOfTimeBaseNum
    \/ Forget

SpecTimebase == InitTimebase /\ [][NextTimebase]_vars


(***************************************************************************)
(* The _lowLevel operations as a state machine: the caller invokes one     *)
(* operation after another; each action is one whole operation.            *)
(***************************************************************************)
\* the operations are synchronous and run one at a time: the next one
\* starts when the caller has taken the outcome of the one before
Run(name, params, driver, eff) ==
    /\ op = "idle"
    /\ Do(name, params, driver, eff)
    /\ UNCHANGED tbVars

ReturnToCaller ==
    /\ op # "idle"
    /\ op' = "idle"
    /\ inputs' = [params |-> <<>>, driver |-> <<>>]
    /\ calls' = <<>>
    /\ outcome' = Return(None)
    /\ UNCHANGED <<handle, maxSamples, legacyNames>>
    /\ UNCHANGED tbVars

OpenUnit ==
    \E sn \in {None, "AB123"}, m \in Status, h \in Handles :
        Run("_lowLevelOpenUnit", <<sn>>, <<m, h>>, _lowLevelOpenUnit(sn, m, h))

CloseUnit ==
    \E m \in Status :
        Run("_lowLevelCloseUnit", <<>>, <<m>>, _lowLevelCloseUnit(m))

SetChannel ==
    \E chNum \in 0..1, m \in Status :
        Run("_lowLevelSetChannel", <<chNum, 1, 1, 6, 0>>, <<m>>,
            _lowLevelSetChannel(chNum, 1, 1, 6, 0, m))

Stop ==
    \E m \in Status : Run("_lowLevelStop", <<>>, <<m>>, _lowLevelStop(m))

GetUnitInfo ==
    \E m1 \in Status, requiredSize \in {12, 256, 257, 2^15 - 1}, m2 \in Status :
        Run("_lowLevelGetUnitInfo", <<3>>, <<m1, requiredSize, m2>>,
            _lowLevelGetUnitInfo(3, m1, requiredSize, m2))

FlashLed ==
    \E m \in Status :
        Run("_lowLevelFlashLed", <<2>>, <<m>>, _lowLevelFlashLed(2, m))

SetSimpleTrigger ==
    \E enabled \in 0..1, m \in Status :
        Run("_lowLevelSetSimpleTrigger", <<enabled, 0, 100, 2, 0, 1000>>, <<m>>,
            _lowLevelSetSimpleTrigger(enabled, 0, 100, 2, 0, 1000, m))

SetNoOfCaptures ==
    \E numCaptures \in {1, 2^16}, m \in Status :
        Run("_lowLevelSetNoOfCaptures", <<numCaptures>>, <<m>>,
            _lowLevelSetNoOfCaptures(numCaptures, m))

MemorySegments ==
    \E numSegments \in {1, MaxSegs}, m \in Status, maxSamplesOut \in {1, MaxShape} :
        Run("_lowLevelMemorySegments", <<numSegments>>, <<m, maxSamplesOut>>,
            _lowLevelMemorySegments(numSegments, m, maxSamplesOut))

GetMaxSegments ==
    \E m \in Status, maxSegmentsOut \in 0..MaxSegs :
        Run("_lowLevelGetMaxSegments", <<>>, <<m, maxSegmentsOut>>,
            _lowLevelGetMaxSegments(m, maxSegmentsOut))

RunBlock ==
    \E tb \in {<<3>>, BigSub(TwoTo32, <<1>>), TwoTo32}, m \in Status, timeIndisposedMs \in {0, 5} :
        Run("_lowLevelRunBlock", <<0, 1, tb, 0, 0>>, <<m, timeIndisposedMs>>,
            _lowLevelRunBlock(0, 1, tb, 0, 0, m, timeIndisposedMs))

IsReady ==
    \E m \in Status, ready \in 0..1 :
        Run("_lowLevelIsReady", <<>>, <<m, ready>>, _lowLevelIsReady(m, ready))

PingUnit ==
    \E m \in Status :
        Run("_lowlevelPingUnit", <<>>, <<m>>, _lowlevelPingUnit(m))

GetTimebase ==
    \E tb \in {<<>>, <<3>>}, m \in Status, intervalNanoSec \in {8, 16}, maxSamplesOut \in {1, MaxShape} :
        Run("_lowLevelGetTimebase", <<tb, 1, 0, 0>>, <<m, intervalNanoSec, maxSamplesOut>>,
            _lowLevelGetTimebase(tb, 1, 0, 0, m, intervalNanoSec, maxSamplesOut))

SetAWGSimpleDeltaPhase ==
    \E m \in Status :
        Run("_lowLevelSetAWGSimpleDeltaPhase", <<4, 1, 0, 1, 0, 0>>, <<m>>,
            _lowLevelSetAWGSimpleDeltaPhase(4, 1, 0, 1, 0, 0, m))

SetDataBuffer ==
    \E channel \in 0..1, numSamples \in {1, MaxShape}, segmentIndex \in {0, MaxSegs}, m \in Status :
        Run("_lowLevelSetDataBuffer", <<channel, numSamples, 0, segmentIndex>>, <<m>>,
            _lowLevelSetDataBuffer(channel, <<"array">>, numSamples, 0, segmentIndex, m))

\* m0 is the status the driver is set to give the registration of segment 0
SetMultipleDataBuffers ==
    \E channel \in 0..1, rows \in 0..MaxShape, columns \in 0..MaxShape,
       m \in Status, maxSegmentsOut \in 0..MaxSegs, m0 \in Status :
        Run("_lowLevelSetMultipleDataBuffers", <<channel, rows, columns, 0>>,
            <<m, maxSegmentsOut, m0>>,
            _lowLevelSetMultipleDataBuffers(channel, rows, columns, 0, m,
                                            maxSegmentsOut, m0))

ClearDataBuffer ==
    \E channel \in {0}, segmentIndex \in {0, MaxSegs}, m \in Status :
        Run("_lowLevelClearDataBuffer", <<channel, segmentIndex>>, <<m>>,
            _lowLevelClearDataBuffer(channel, segmentIndex, m))

GetValues ==
    \E m \in Status, numSamplesReturned \in 0..1, overflow \in 0..1 :
        Run("_lowLevelGetValues", <<1, 0, 1, 0, 0>>, <<m, numSamplesReturned, overflow>>,
            _lowLevelGetValues(1, 0, 1, 0, 0, m, numSamplesReturned, overflow))

GetValuesBulk ==
    \E numSamples \in {1, 2^15}, m \in Status :
        Run("_lowLevelGetValuesBulk", <<numSamples, 0, 1, 1, 0>>, <<m>>,
            _lowLevelGetValuesBulk(numSamples, 0, 1, 1, 0, m))

\* after construction: the unit is open under some handle (connect=True),
\* the base class has recorded some maximum sample count, and the library
\* is loaded
Init ==
    /\ sampleTimeS = FZero
    /\ st = NotRequested
    /\ timebase = <<>>
    /\ dt = NotConverted
    /\ handle \in Handles
    /\ maxSamples \in 1..MaxShape
    /\ legacyNames \in BOOLEAN
    /\ op = "idle"
    /\ inputs = [params |-> <<>>, driver |-> <<>>]
    /\ calls = <<>>
    /\ outcome = Return(None)

Next ==
    \/ OpenUnit
    \/ CloseUnit
    \/ SetChannel
    \/ Stop
    \/ GetUnitInfo
    \/ FlashLed
    \/ SetSimpleTrigger
    \/ SetNoOfCaptures
    \/ MemorySegments
    \/ GetMaxSegments
    \/ RunBlock
    \/ IsReady
    \/ PingUnit
    \/ GetTimebase
    \/ SetAWGSimpleDeltaPhase
    \/ SetDataBuffer
    \/ SetMultipleDataBuffers
    \/ ClearDataBuffer
    \/ GetValues
    \/ GetValuesBulk
    \/ ReturnToCaller

Spec == Init /\ [][Next]_vars


(***************************************************************************)
(* Properties of the timebase converter (checked under SpecTimebase).      *)
(***************************************************************************)
\* the literal 1e-9: 8e-9 / 8
OneNs == Scale(Lit8ns, 0 - 3)

MaxCode == BigSub(TwoTo32, <<1>>)

\* the double x is a double nearest to n / (c1 * c2), for x below 4:
\* |x * c - n| <= ulp(x) / 2 * c, scaled to integers
NearestDouble(x, n, c1, c2) ==
    LET a == BigMulSmall(BigMulSmall(BigMulSmall(x.m, 2), c1), c2)
        b == ShiftLeft(n, 1 - x.e)
        c == BigMulSmall(<<c1>>, c2)
    IN  /\ BitLen(x.m) = 53
        /\ x.e <= 1
        /\ IF BigLess(a, b) THEN BigLeq(BigSub(b, a), c)
                            ELSE BigLeq(BigSub(a, b), c)

\* C1: every code is converted, none rejected: a code below 3 gives the
\* double nearest to 2^code / 10^9 s, a code of 3 or more the double
\* nearest to (code - 2) / 125000000 s.
C1_TwoRegimeFormula ==
    dt.err # "NotCalled" =>
        /\ dt.err = "none"
        /\ IF BigLess(timebase, <<3>>)
           THEN NearestDouble(dt.dt, ShiftLeft(<<1>>, IF timebase = <<>> THEN 0 ELSE timebase[1]),
                              Nano1E9[1], Nano1E9[2])
           ELSE NearestDouble(dt.dt, BigSub(timebase, <<2>>),
                              Clock125M[1], Clock125M[2])

C1_Witness ==
    /\ dt.err = "none"
    /\ timebase = <<7>>
    /\ dt.dt = Tick(5)

\* C2: every requested interval that is zero or below one nanosecond gives
\* code 0 and no error.
C2_SubNanosecondGivesZero ==
    (st # NotRequested /\ FLess(sampleTimeS, OneNs)) => st = Returned(<<>>)

\* C3: an interval above maxSampleTime raises nothing and gets the code of
\* maxSampleTime, 2^32 - 1; so every code returned lies in 0 .. 2^32 - 1 and
\* reaches the driver's run-block call unchanged as an unsigned 32-bit value.
C3_ClampAboveMax ==
    /\ (st # NotRequested /\ FLess(maxSampleTime, sampleTimeS)) =>
           /\ st = Returned(MaxCode)
           /\ st = getTimeBaseNum(maxSampleTime)
    /\ st.err = "none" =>
           /\ BigLeq(st.st, MaxCode)
           /\ _lowLevelRunBlock(0, 1, st.st, 0, 0, 0, 0).calls[1].args[4] = st.st

C3_Witness ==
    /\ st.err = "none"
    /\ sampleTimeS = Scale(maxSampleTime, 1)
    /\ st.st = MaxCode

\* C4: for a requested interval t from 1 ns to maxSampleTime with code c,
\* codeToInterval(c) <= t < codeToInterval(c + 1).
C4_RoundTrip ==
    (st.err = "none" /\ FLeq(OneNs, sampleTimeS) /\ FLeq(sampleTimeS, maxSampleTime)) =>
        /\ FLeq(getTimestepFromTimebase(st.st), sampleTimeS)
        /\ FLess(sampleTimeS, getTimestepFromTimebase(BigAdd(st.st, <<1>>)))

\* C5: within each regime (below 8 ns; 8 ns and above) a longer requested
\* interval never gets a smaller code.
SameRegime(t1, t2) == FLess(t1, Lit8ns) <=> FLess(t2, Lit8ns)

C5_Monotone ==
    st.err = "none" =>
        \A t1 \in Intervals :
            (FLeq(t1, sampleTimeS) /\ SameRegime(t1, sampleTimeS)
                /\ getTimeBaseNum(t1).err = "none")
            => BigLeq(getTimeBaseNum(t1).st, st.st)

C5_Witness ==
    /\ st.err = "none"
    /\ sampleTimeS = Scale(maxSampleTime, 1)
    /\ \E t1 \in Intervals :
          /\ FLess(t1, sampleTimeS)
          /\ ~FLess(t1, Lit8ns)
          /\ BigLess(getTimeBaseNum(t1).st, st.st)


(***************************************************************************)
(* Properties of the _lowLevel operations (checked under Spec).            *)
(***************************************************************************)
MultiRan == op = "_lowLevelSetMultipleDataBuffers"
Rows == inputs.params[2]
Columns == inputs.params[3]
QueryStatus == inputs.driver[1]       \* of the ps3000aGetMaxSegments call
ReportedSegments == inputs.driver[2]  \* what that call reports
Segment0Status == inputs.driver[3]    \* the driver's answer to registering segment 0

ShapeFits == Rows >= ReportedSegments /\ Columns >= maxSamples

Registrations == SelectSeq(calls, LAMBDA c : c.fn = "ps3000aSetDataBuffer")

\* C6: with fewer rows than the driver reports segments, or fewer columns
\* than the recorded maximum sample count, the helper raises its shape
\* error (a ValueError) and registers no buffer with the driver.
C6_ShapeRejected ==
    (MultiRan /\ QueryStatus = 0 /\ ~ShapeFits) =>
        /\ outcome = Raise("ValueError")
        /\ Registrations = <<>>

C6_Witness ==
    /\ MultiRan
    /\ QueryStatus = 0
    /\ Rows >= ReportedSegments
    /\ ReportedSegments > 0
    /\ Columns < maxSamples
    /\ outcome.kind = "ValueError"
    /\ Len(calls) = 1

\* C7: with a fitting shape and status 0 from every driver call, the helper
\* returns having registered row i for segment i, for i = 0 .. segments - 1
\* in this order, and nothing else.
C7_RegistersEverySegment ==
    (MultiRan /\ QueryStatus = 0 /\ Segment0Status = 0 /\ ShapeFits) =>
        /\ outcome = Return(None)
        /\ Registrations =
             [i \in 1..ReportedSegments |->
                 Call("ps3000aSetDataBuffer",
                      <<c_int16(handle), inputs.params[1], <<"row", i - 1>>,
                        Columns, i - 1, inputs.params[4]>>, 0)]

\* C8: when the driver fails the registration of a segment, the helper ends
\* with that driver error at once, having called the driver for no later
\* segment and having undone nothing.
C8_AbortAtFirstFailure ==
    (MultiRan /\ QueryStatus = 0 /\ ShapeFits /\ ReportedSegments >= 1
        /\ Segment0Status # 0) =>
        /\ outcome = DriverError(Segment0Status)
        /\ Len(Registrations) = 1
        /\ Registrations[1].args[5] = 0
        /\ Registrations[1].status = Segment0Status

\* C9: in every operation a driver call that returns a status other than 0
\* is the last call the operation makes, and the operation ends with the
\* driver error carrying that status and returns no value.
C9_StatusCheckedAfterEveryCall ==
    \A i \in 1..Len(calls) :
        calls[i].status # 0 =>
            /\ i = Len(calls)
            /\ outcome = DriverError(calls[i].status)
            /\ outcome.value = None

C9_Witness ==
    /\ op = "_lowLevelGetUnitInfo"
    /\ legacyNames
    /\ inputs.driver[1] # 0
    /\ inputs.driver[2] > 256
    /\ Len(calls) = 1
    /\ outcome = DriverError(inputs.driver[1])

\* C10: get unit info calls the unit-info entry point with a 256-byte
\* buffer; when that succeeds and the required size exceeds the buffer it
\* calls the same entry point once more and returns the second string,
\* otherwise it returns the first string after the one call.
C10_RetrySameEntryPoint ==
    (op = "_lowLevelGetUnitInfo" /\ inputs.driver[1] = 0) =>
        /\ calls[1].fn = "ps3000aGetUnitInfo"
        /\ calls[1].args[2] = 256
        /\ IF inputs.driver[2] > 256
           THEN /\ Len(calls) = 2
                /\ calls[2].fn = calls[1].fn
                /\ inputs.driver[3] = 0 => outcome = Return(<<"s", 2>>)
           ELSE /\ Len(calls) = 1
                /\ outcome = Return(<<"s", 1>>)

=============================================================================
